---- MODULE Spec2Model ----
(***************************************************************************)
(* Model of the creative-generation pipeline (src/pipeline): the           *)
(* orchestrator generate_campaign_creatives as a state machine, and the    *)
(* geometry helpers resize_and_crop, composite_product_on_background and   *)
(* add_logo as operators over image sizes.  Python floats are IEEE-754     *)
(* binary64 values; they are modelled bit-exactly (53-bit significand,     *)
(* round-to-nearest-even) because int(...) truncates their results.        *)
(***************************************************************************)
EXTENDS Integers, Sequences, FiniteSets, TLC

(***************************************************************************)
(* Python float arithmetic.  A float is zero or m * 2^e with m a 53-bit    *)
(* significand held as a sequence of bits, most significant (always 1)     *)
(* first.  Only non-negative values occur in the modelled code.            *)
(***************************************************************************)
MantBits == 53

\* Bits are handled ChunkBits at a time to keep the recursion shallow.
ChunkBits == 8
ChunkBase == 256

FZero == [m |-> <<>>, e |-> 0]

Pow2Table ==
    <<1, 2, 4, 8, 16, 32, 64, 128, 256, 512, 1024, 2048, 4096, 8192, 16384,
      32768, 65536, 131072, 262144, 524288, 1048576, 2097152, 4194304,
      8388608, 16777216, 33554432, 67108864, 134217728, 268435456,
      536870912, 1073741824>>

Pow2(n) == Pow2Table[n + 1]

Zeros(n) == [i \in 1..n |-> 0]

\* Drop the leading zero bits (the empty sequence for zero).
StripZeros(bs) ==
    IF \A i \in 1..Len(bs) : bs[i] = 0 THEN <<>>
    ELSE LET k == CHOOSE i \in 1..Len(bs) :
                     bs[i] = 1 /\ \A j \in 1..(i - 1) : bs[j] = 0
         IN SubSeq(bs, k, Len(bs))

\* The n-bit binary form of v, most significant bit first (0 <= v < 2^n).
FixedBits(v, n) == [i \in 1..n |-> (v \div Pow2(n - i)) % 2]

\* Binary digits of an int n >= 0 without leading zeros.
IntBits(n) == StripZeros(FixedBits(n, 31))

\* Value of the ChunkBits bits of bs starting at index i.
ChunkVal(bs, i) ==
    bs[i] * 128 + bs[i + 1] * 64 + bs[i + 2] * 32 + bs[i + 3] * 16
        + bs[i + 4] * 8 + bs[i + 5] * 4 + bs[i + 6] * 2 + bs[i + 7]

\* Value of a bit sequence of at most 31 bits.
BitsInt(bs) ==
    LET p == Zeros(32 - Len(bs)) \o bs
    IN ((ChunkVal(p, 1) * ChunkBase + ChunkVal(p, 9)) * ChunkBase
            + ChunkVal(p, 17)) * ChunkBase + ChunkVal(p, 25)

\* bs + 1 on a bit sequence (one bit longer when every bit is 1).
IncBits(bs) ==
    IF \A i \in 1..Len(bs) : bs[i] = 1 THEN <<1>> \o Zeros(Len(bs))
    ELSE LET k == CHOOSE i \in 1..Len(bs) :
                     bs[i] = 0 /\ \A j \in (i + 1)..Len(bs) : bs[j] = 1
         IN [i \in 1..Len(bs) |->
                IF i < k THEN bs[i] ELSE IF i = k THEN 1 ELSE 0]

\* Round the exact value bits * 2^e (plus a non-zero tail below the last bit
\* when sticky) to the nearest float, ties to even.  bits starts with a 1.
RoundNearestEven(bits, e, sticky) ==
    IF Len(bits) <= MantBits
    THEN [m |-> bits \o Zeros(MantBits - Len(bits)),
          e |-> e - (MantBits - Len(bits))]
    ELSE LET keep == SubSeq(bits, 1, MantBits)
             guard == bits[MantBits + 1]
             tail == sticky \/ \E i \in (MantBits + 2)..Len(bits) : bits[i] = 1
             up == guard = 1 /\ (tail \/ keep[MantBits] = 1)
             e2 == e + Len(bits) - MantBits
             inc == IncBits(keep)
         IN IF ~up THEN [m |-> keep, e |-> e2]
            ELSE IF Len(inc) = MantBits THEN [m |-> inc, e |-> e2]
            ELSE [m |-> SubSeq(inc, 1, MantBits), e |-> e2 + 1]

\* Long division of the integer with bits N (a whole number of chunks) by
\* b < 2^22, from chunk i on with running remainder r: quotient bits and
\* final remainder.
RECURSIVE LongDiv(_, _, _, _)
LongDiv(N, i, r, b) ==
    IF i > Len(N) THEN [q |-> <<>>, r |-> r]
    ELSE LET t == r * ChunkBase + ChunkVal(N, i)
             rest == LongDiv(N, i + ChunkBits, t % b, b)
         IN [q |-> FixedBits(t \div b, ChunkBits) \o rest.q, r |-> rest.r]

\* Width of the dividend after padding: enough quotient bits for a full
\* significand plus a guard bit whatever b < 2^22 is, in whole chunks.
DivWidth(n) ==
    LET need == IF n > MantBits + 24 THEN n ELSE MantBits + 24
    IN ((need + ChunkBits - 1) \div ChunkBits) * ChunkBits

\* float / int  (the int converts exactly)
FDivInt(f, b) ==
    IF f.m = <<>> THEN FZero
    ELSE LET w == DivWidth(Len(f.m))
             d == LongDiv(f.m \o Zeros(w - Len(f.m)), 1, 0, b)
         IN RoundNearestEven(StripZeros(d.q), f.e - (w - Len(f.m)), d.r # 0)

\* float(n) for an int n >= 0
FromInt(n) == IF n = 0 THEN FZero ELSE RoundNearestEven(IntBits(n), 0, FALSE)

\* a / b on two ints (Python true division)
FDiv(a, b) == FDivInt(FromInt(a), b)

\* Bits of m * w + carry, for the bit sequence m (a whole number of chunks,
\* taken from its low end up to index hi) and an int w < 2^22.
RECURSIVE MulBits(_, _, _, _)
MulBits(m, hi, w, carry) ==
    IF hi = 0 THEN FixedBits(carry, 31)
    ELSE LET t == ChunkVal(m, hi - ChunkBits + 1) * w + carry
         IN MulBits(m, hi - ChunkBits, w, t \div ChunkBase)
                \o FixedBits(t % ChunkBase, ChunkBits)

\* int * float
FMulInt(w, f) ==
    IF w = 0 \/ f.m = <<>> THEN FZero
    ELSE LET p == Zeros(56 - MantBits) \o f.m
         IN RoundNearestEven(StripZeros(MulBits(p, 56, w, 0)), f.e, FALSE)

\* int(f): truncation toward zero
Trunc(f) ==
    IF f.m = <<>> THEN 0
    ELSE IF f.e >= 0 THEN BitsInt(f.m) * Pow2(f.e)
    ELSE IF MantBits + f.e <= 0 THEN 0
    ELSE BitsInt(SubSeq(f.m, 1, MantBits + f.e))

FOne == FromInt(1)

\* f > g
FGreater(f, g) ==
    IF f.m = <<>> THEN FALSE
    ELSE IF g.m = <<>> THEN TRUE
    ELSE \/ f.e > g.e
         \/ /\ f.e = g.e
            /\ \E i \in 1..MantBits :
                  /\ f.m[i] > g.m[i]
                  /\ \A j \in 1..(i - 1) : f.m[j] = g.m[j]

(***************************************************************************)
(* aspect_ratios.py                                                        *)
(***************************************************************************)
\* Iteration order of the ASPECT_RATIOS dict.
RatioNames == <<"1x1", "9x16", "16x9">>

ASPECT_RATIOS ==
    [n \in {"1x1", "9x16", "16x9"} |->
        IF n = "1x1" THEN [width |-> 1080, height |-> 1080]
        ELSE IF n = "9x16" THEN [width |-> 1080, height |-> 1920]
        ELSE [width |-> 1920, height |-> 1080]]

\* resize_and_crop on an image of size w x h: the size it resizes to, the
\* crop box, and the size of the returned image (the size of the crop box).
resize_and_crop(w, h, target_width, target_height, focus) ==
    LET img_ratio == FDiv(w, h)
        target_ratio == FDiv(target_width, target_height)
        wider == FGreater(img_ratio, target_ratio)
        new_width == IF wider
                     THEN Trunc(FMulInt(w, FDiv(target_height, h)))
                     ELSE target_width
        new_height == IF wider
                      THEN target_height
                      ELSE Trunc(FMulInt(h, FDiv(target_width, w)))
        left == IF new_width >= target_width
                THEN (new_width - target_width) \div 2 ELSE 0
        right == IF new_width >= target_width
                 THEN left + target_width ELSE new_width
        top == IF new_height >= target_height
               THEN (IF focus = "top" THEN 0
                     ELSE IF focus = "bottom" THEN new_height - target_height
                     ELSE (new_height - target_height) \div 2)
               ELSE 0
        bottom == IF new_height >= target_height
                  THEN (IF focus = "top" THEN target_height
                        ELSE IF focus = "bottom" THEN new_height
                        ELSE top + target_height)
                  ELSE new_height
    IN [new_width |-> new_width, new_height |-> new_height,
        left |-> left, top |-> top, right |-> right, bottom |-> bottom,
        width |-> right - left, height |-> bottom - top]

(***************************************************************************)
(* compositor.py                                                           *)
(***************************************************************************)
\* The float a decimal literal or a config value p/100 denotes (0.55 is the
\* float nearest to 55/100).
Percent(p) == FDiv(p, 100)

\* Variant: the height cap is not applied.
ScaledSizeNoCap(bw, bh, pw, ph, product_scale, max_height_percent) ==
    LET width0 == Trunc(FMulInt(bw, product_scale))
    IN [width |-> width0, height |-> Trunc(FMulInt(ph, FDiv(width0, pw)))]

\* compositor.py 35-46: the size the product is resized to.  (PIL refuses to
\* resize to an empty size; the numbers are computed all the same.)
ScaledSize(bw, bh, pw, ph, product_scale, max_height_percent) ==
    LET width0 == Trunc(FMulInt(bw, product_scale))
        height0 == Trunc(FMulInt(ph, FDiv(width0, pw)))
        max_height == Trunc(FMulInt(bh, max_height_percent))
    IN IF height0 > max_height
       THEN [width |-> Trunc(FMulInt(pw, FDiv(max_height, ph))),
             height |-> max_height]
       ELSE [width |-> width0, height |-> height0]

\* Variant: a sign slip in the horizontal centring.
PlacementSignSlip(position, bw, bh, sw, sh) ==
    LET bottom8 == bh - sh - Trunc(FMulInt(bh, Percent(8)))
        tenth == Trunc(FMulInt(bw, Percent(10)))
    IN IF position = "center-bottom"
       THEN [x |-> (bw + sw) \div 2, y |-> bottom8]
       ELSE IF position = "left" THEN [x |-> tenth, y |-> bottom8]
       ELSE IF position = "right" THEN [x |-> bw - sw - tenth, y |-> bottom8]
       ELSE [x |-> (bw + sw) \div 2, y |-> (bh - sh) \div 2]

\* compositor.py 52-69: where the resized product is pasted.
Placement(position, bw, bh, sw, sh) ==
    LET bottom8 == bh - sh - Trunc(FMulInt(bh, Percent(8)))
        tenth == Trunc(FMulInt(bw, Percent(10)))
    IN IF position = "center-bottom"
       THEN [x |-> (bw - sw) \div 2, y |-> bottom8]
       ELSE IF position = "left" THEN [x |-> tenth, y |-> bottom8]
       ELSE IF position = "right" THEN [x |-> bw - sw - tenth, y |-> bottom8]
       ELSE [x |-> (bw - sw) \div 2, y |-> (bh - sh) \div 2]

\* composite_product_on_background for a bw x bh background and a pw x ph
\* product: size and paste position of the resized product.
composite_product_on_background(bw, bh, pw, ph, position, scale, max_height) ==
    LET size == ScaledSize(bw, bh, pw, ph, scale, max_height)
        at == Placement(position, bw, bh, size.width, size.height)
    IN [target_width |-> size.width, target_height |-> size.height,
        x |-> at.x, y |-> at.y]

(***************************************************************************)
(* brand_overlay.py: the logo step                                         *)
(***************************************************************************)
LOGO_SIZES ==
    [n \in {"1x1", "9x16", "16x9"} |-> IF n = "16x9" THEN 15 ELSE 20]

\* Variant: the landscape entry is missing from the table.
LogoSizeSquare(aspect_ratio, logo_max_width_percent) ==
    IF aspect_ratio \in {"1x1", "9x16"} THEN LOGO_SIZES[aspect_ratio]
    ELSE IF aspect_ratio = "16x9" THEN 20
    ELSE logo_max_width_percent

\* LOGO_SIZES.get(aspect_ratio, layout.logo_max_width_percent)
LogoSize(aspect_ratio, logo_max_width_percent) ==
    IF aspect_ratio \in DOMAIN LOGO_SIZES THEN LOGO_SIZES[aspect_ratio]
    ELSE logo_max_width_percent

\* int(length * percent / 100) with a float percent
PercentOf(length, percent) ==
    Trunc(FDivInt(FMulInt(length, FromInt(percent)), 100))

\* add_logo on a w x h image with a lw x lh logo: size and position pasted.
\* ("left" in position / "top" in position, on the four position names)
add_logo(w, h, lw, lh, position, max_width_percent, margin_percent) ==
    LET max_width == PercentOf(w, max_width_percent)
        shrink == lw > max_width
        width == IF shrink THEN max_width ELSE lw
        height == IF shrink THEN Trunc(FMulInt(lh, FDiv(max_width, lw)))
                  ELSE lh
        margin_x == PercentOf(w, margin_percent)
        margin_y == PercentOf(h, margin_percent)
    IN [width |-> width, height |-> height,
        x |-> IF position \in {"top-left", "bottom-left"} THEN margin_x
              ELSE w - width - margin_x,
        y |-> IF position \in {"top-left", "top-right"} THEN margin_y
              ELSE h - height - margin_y]

\* brand_overlay.py 406-416: the logo apply_brand_overlay pastes, if any.
LogoStep(aspect_ratio, w, h, logo_exists, lw, lh, layout) ==
    IF logo_exists
    THEN <<add_logo(w, h, lw, lh, layout.logo_position,
                    LogoSize(aspect_ratio, layout.logo_max_width_percent),
                    layout.safe_margin_percent)>>
    ELSE <<>>

(***************************************************************************)
(* brand_overlay.py: the CTA button step                                   *)
(***************************************************************************)
CTA_BUTTON_SIZES ==
    [n \in {"1x1", "9x16", "16x9"} |->
        IF n = "1x1" THEN 45 ELSE IF n = "9x16" THEN 55 ELSE 40]

\* CTA_BUTTON_SIZES.get(aspect_ratio, 45.0)
CtaButtonSize(aspect_ratio) ==
    IF aspect_ratio \in DOMAIN CTA_BUTTON_SIZES
    THEN CTA_BUTTON_SIZES[aspect_ratio] ELSE 45

\* Variant: y is not clamped at the bottom margin.
CtaButtonYUnclamped(h, button_height) ==
    Trunc(FMulInt(h, Percent(70))) + Trunc(FMulInt(h, Percent(3)))

\* brand_overlay.py 328-338: the y the button is pasted at.
CtaButtonY(h, button_height) ==
    LET y == Trunc(FMulInt(h, Percent(70))) + Trunc(FMulInt(h, Percent(3)))
        max_y == h - Trunc(FMulInt(h, Percent(5))) - button_height
    IN IF y > max_y THEN max_y ELSE y

\* add_cta_button on a w x h image with a bw x bh button file: <<>> when the
\* file is missing (the image is returned as it came), else the size and
\* position of the pasted button.
add_cta_button(w, h, button_exists, bw, bh, max_width_percent) ==
    IF ~button_exists THEN <<>>
    ELSE LET max_width == PercentOf(w, max_width_percent)
             shrink == bw > max_width
             width == IF shrink THEN max_width ELSE bw
             height == IF shrink THEN Trunc(FMulInt(bh, FDiv(max_width, bw)))
                       ELSE bh
         IN <<[width |-> width, height |-> height,
               x |-> (w - width) \div 2, y |-> CtaButtonY(h, height)]>>

(***************************************************************************)
(* brand_overlay.py: wrap_text and the text pill                           *)
(***************************************************************************)
\* A text is a sequence of characters.  The font is known by its metrics: the
\* advance of each character (draw.textbbox / draw.textlength of a line is the
\* sum of its advances) and the height of the sample "Ag".
Chars == {"a", "W", " "}

Advance(c) == IF c = "W" THEN 2 ELSE 1

RECURSIVE TextWidth(_)
\* bbox[2] - bbox[0] of draw.textbbox((0, 0), line, font=font)
TextWidth(line) ==
    IF line = <<>> THEN 0 ELSE Advance(Head(line)) + TextWidth(Tail(line))

\* text.split(): the maximal runs of non-blank characters, in order.
Split(text) ==
    LET starts == {i \in 1..Len(text) :
                      text[i] # " " /\ (i = 1 \/ text[i - 1] = " ")}
        start(k) == CHOOSE i \in starts :
                       Cardinality({j \in starts : j < i}) = k - 1
        end(i) == CHOOSE j \in i..Len(text) :
                     /\ \A m \in i..j : text[m] # " "
                     /\ (j = Len(text) \/ text[j + 1] = " ")
    IN [k \in 1..Cardinality(starts) |->
           SubSeq(text, start(k), end(start(k)))]

RECURSIVE Join(_)
\* " ".join(parts)
Join(parts) ==
    IF parts = <<>> THEN <<>>
    ELSE IF Len(parts) = 1 THEN parts[1]
    ELSE parts[1] \o <<" ">> \o Join(Tail(parts))

\* Variant: the finished line is appended without the `if current_line` test.
WrapStepNoGuard(st, word, max_width) ==
    IF TextWidth(Join(Append(st.current_line, word))) <= max_width
    THEN [lines |-> st.lines, current_line |-> Append(st.current_line, word)]
    ELSE [lines |-> Append(st.lines, Join(st.current_line)),
          current_line |-> <<word>>]

\* Variant: the current line is not started afresh after a break.
WrapStepNoReset(st, word, max_width) ==
    IF TextWidth(Join(Append(st.current_line, word))) <= max_width
    THEN [lines |-> st.lines, current_line |-> Append(st.current_line, word)]
    ELSE [lines |-> IF st.current_line # <<>>
                    THEN Append(st.lines, Join(st.current_line))
                    ELSE st.lines,
          current_line |-> Append(st.current_line, word)]

\* brand_overlay.py 90-103: the body of `for word in words`.
WrapStep(st, word, max_width) ==
    IF TextWidth(Join(Append(st.current_line, word))) <= max_width
    THEN [lines |-> st.lines, current_line |-> Append(st.current_line, word)]
    ELSE [lines |-> IF st.current_line # <<>>
                    THEN Append(st.lines, Join(st.current_line))
                    ELSE st.lines,
          current_line |-> <<word>>]

RECURSIVE WrapLoop(_, _, _)
WrapLoop(words, st, max_width) ==
    IF words = <<>> THEN st
    ELSE WrapLoop(Tail(words), WrapStep(st, Head(words), max_width), max_width)

\* wrap_text(text, font, max_width, draw)
wrap_text(text, max_width) ==
    LET st == WrapLoop(Split(text), [lines |-> <<>>, current_line |-> <<>>],
                       max_width)
        lines == IF st.current_line # <<>>
                 THEN Append(st.lines, Join(st.current_line))
                 ELSE st.lines
    IN IF lines # <<>> THEN lines ELSE <<text>>

\* `"left" in position` and the like, on the position names in use.
HasLeft(position) ==
    position \in {"top-left", "bottom-left", "center-left", "left"}

HasRight(position) ==
    position \in {"top-right", "bottom-right", "center-right", "right"}

HasTop(position) == position \in {"top-left", "top-right", "top-center", "top"}

HasBottom(position) ==
    position \in {"bottom-left", "bottom-right", "bottom-center", "bottom"}

\* max(line_widths)
MaxLineWidth(lines) ==
    CHOOSE m \in {TextWidth(lines[i]) : i \in 1..Len(lines)} :
        \A i \in 1..Len(lines) : TextWidth(lines[i]) <= m

\* brand_overlay.py 179-195: the top-left corner of the pill.
PillPosition(w, h, box_width, box_height, position, margin_x, margin_y) ==
    LET x0 == IF HasLeft(position) THEN margin_x
              ELSE IF HasRight(position) THEN w - box_width - margin_x
              ELSE (w - box_width) \div 2
        upper == w - box_width - margin_x
        lower == IF x0 < upper THEN x0 ELSE upper
    IN [x |-> IF margin_x > lower THEN margin_x ELSE lower,
        y |-> IF HasTop(position) THEN margin_y
              ELSE IF HasBottom(position) THEN h - box_height - margin_y
              ELSE (h - box_height) \div 2]

\* add_text_with_background on a w x h image: the wrapped lines, the margins
\* and the box of the pill.  line_height is the height of "Ag" in the font.
add_text_with_background(w, h, text, line_height, position, margin_percent, max_width_percent) ==
    LET margin_x == PercentOf(w, margin_percent)
        margin_y == PercentOf(h, margin_percent)
        lines == wrap_text(text, PercentOf(w, max_width_percent))
        line_spacing == Trunc(FMulInt(line_height, Percent(20)))
        total_text_height ==
            line_height * Len(lines) + line_spacing * (Len(lines) - 1)
        padding_x == Trunc(FMulInt(line_height, Percent(40)))
        padding_y == Trunc(FMulInt(line_height, Percent(30)))
        total_box_width == MaxLineWidth(lines) + padding_x * 2
        total_box_height == total_text_height + padding_y * 2
        at == PillPosition(w, h, total_box_width, total_box_height, position,
                           margin_x, margin_y)
    IN [lines |-> lines, margin_x |-> margin_x, margin_y |-> margin_y,
        width |-> total_box_width, height |-> total_box_height,
        x |-> at.x, y |-> at.y]

(***************************************************************************)
(* generator.py: load_campaign_brief and generate_campaign_creatives       *)
(***************************************************************************)
VARIABLES
    pc,                 \* position of the run
    data,               \* the parsed JSON of the brief: its products list
    brief,              \* the validated CampaignBrief: its products
    progress_callback,  \* TRUE when a callback is passed, FALSE for None
    total_steps, current_step,
    product_index,      \* position of `for product in brief.products`
    ratio_index,        \* position of `for ratio_name, ... in ASPECT_RATIOS`
    results, product_results,
    background,         \* size of the image generate_background returned
    product_image,      \* size of the product image loaded from disk
    image,              \* size of the image being rendered
    composite,          \* <<>> or <<the last product composite>>
    files,              \* the PNG files on disk: path -> image size
    manifest,           \* generation_log.json: <<>> or <<log_data>>
    returned,           \* <<>> or <<the returned dict>>
    failed_at,          \* the step whose exception ended the run
    trace,              \* history of the steps and progress events
    call                \* a single call of a geometry helper

pipeline_vars ==
    <<pc, data, brief, progress_callback, total_steps, current_step,
      product_index, ratio_index, results, product_results, background,
      product_image, image, composite, files, manifest, returned, failed_at,
      trace>>

vars == <<pipeline_vars, product_image, composite, call>>

\* Bounds of the model.
MaxProducts == 2

ProductIds == {"boot", "pack"}

\* A products entry whose "id" key is absent (or not a string).
NoValue == "<missing>"

NoImage == [width |-> 0, height |-> 0]

NoCall == [fn |-> "none", args |-> <<>>, ret |-> <<>>]

\* generate_background(region, size="1792x1024") returns a 1792x1024 image.
BackgroundSize == [width |-> 1792, height |-> 1024]

\* Image.open(product.image_path): the product images on disk.
ProductImageSizes ==
    {[width |-> 600, height |-> 1600], [width |-> 1600, height |-> 600]}

\* generator.py 22-30, scale and max_height in percent.
PRODUCT_SETTINGS ==
    [n \in {"1x1", "9x16", "16x9"} |->
        IF n = "1x1"
        THEN [scale |-> 55, max_height |-> 50, position |-> "center"]
        ELSE IF n = "9x16"
        THEN [scale |-> 75, max_height |-> 40, position |-> "center"]
        ELSE [scale |-> 50, max_height |-> 65, position |-> "center"]]

\* Variant: the square format anchors the product at the bottom.
ProductSettingsBottom(ratio_name) ==
    IF ratio_name = "1x1"
    THEN [scale |-> 55, max_height |-> 50, position |-> "center-bottom"]
    ELSE IF ratio_name \in DOMAIN PRODUCT_SETTINGS
    THEN PRODUCT_SETTINGS[ratio_name]
    ELSE [scale |-> 40, max_height |-> 50, position |-> "center"]

\* generator.py 108-111: PRODUCT_SETTINGS.get(ratio_name, {...})
ProductSettings(ratio_name) ==
    IF ratio_name \in DOMAIN PRODUCT_SETTINGS
    THEN PRODUCT_SETTINGS[ratio_name]
    ELSE [scale |-> 40, max_height |-> 50, position |-> "center"]

Event(kind, product, ratio, fraction) ==
    [kind |-> kind, product |-> product, ratio |-> ratio, fraction |-> fraction]

\* The history entry of a step of the current product and aspect ratio.
Step(kind) ==
    Event(kind,
          IF kind \in {"manifest", "done"} THEN 0 ELSE product_index,
          IF kind \in {"crop", "composite", "overlay", "persist"}
          THEN RatioNames[ratio_index] ELSE "",
          FZero)

\* str(product_dir / f"{ratio_name}.png") below the campaign directory
OutputPath(id, ratio_name) == [dir |-> id, file |-> ratio_name]

\* Variant: the background step is left out of the total.
TotalStepsRatiosOnly(n) == n * Len(RatioNames)

\* len(brief.products) * (1 + len(ASPECT_RATIOS))
TotalSteps(n) == n * (1 + Len(RatioNames))

\* Variant: the callback runs before current_step is incremented.
ProgressFractionBefore(step, total) == FDiv(step - 1, total)

\* What update_progress passes to the callback after current_step += 1.
ProgressFraction(step, total) == FDiv(step, total)

\* update_progress: the events it appends to the history.
update_progress(ratio) ==
    IF progress_callback
    THEN <<Event("progress", product_index, ratio,
                 ProgressFraction(current_step + 1, total_steps))>>
    ELSE <<>>

\* CampaignBrief(**data): pydantic checks the declared fields and types only.
ValidBrief(d) == \A i \in 1..Len(d) : d[i].id # NoValue

RawBriefs ==
    UNION {[1..n -> [id : ProductIds \cup {NoValue}]] : n \in 0..MaxProducts}

Init ==
    /\ pc = "start"
    /\ data \in RawBriefs
    /\ brief = <<>>
    /\ progress_callback \in BOOLEAN
    /\ total_steps = 0
    /\ current_step = 0
    /\ product_index = 0
    /\ ratio_index = 0
    /\ results = <<>>
    /\ product_results = <<>>
    /\ background = NoImage
    /\ product_image = NoImage
    /\ image = NoImage
    /\ composite = <<>>
    /\ files = <<>>
    /\ manifest = <<>>
    /\ returned = <<>>
    /\ failed_at = ""
    /\ trace = <<>>
    /\ call = NoCall

load_campaign_brief ==
    /\ pc = "start"
    /\ ValidBrief(data)
    /\ brief' = data
    /\ pc' = "loaded"
    /\ UNCHANGED <<data, progress_callback, total_steps, current_step,
                   product_index, ratio_index, results, product_results,
                   background, image, files, manifest, returned, failed_at,
                   trace, product_image, composite, call>>

\* pydantic raises ValidationError
load_campaign_brief_error ==
    /\ pc = "start"
    /\ ~ValidBrief(data)
    /\ pc' = "config_error"
    /\ UNCHANGED <<data, brief, progress_callback, total_steps, current_step,
                   product_index, ratio_index, results, product_results,
                   background, image, files, manifest, returned, failed_at,
                   trace, product_image, composite, call>>

\* generator.py 65-76
StartRun ==
    /\ pc = "loaded"
    /\ results' = <<>>
    /\ total_steps' = TotalSteps(Len(brief))
    /\ current_step' = 0
    /\ product_index' = 1
    /\ pc' = "next_product"
    /\ UNCHANGED <<data, brief, progress_callback, ratio_index,
                   product_results, background, image, files, manifest,
                   returned, failed_at, trace, product_image, composite, call>>

\* Variant: the background of the first product is reused for the others.
BeginProductCached ==
    /\ pc = "next_product"
    /\ product_index <= Len(brief)
    /\ product_results' = <<>>
    /\ current_step' = current_step + 1
    /\ trace' = trace \o update_progress("")
    /\ pc' = IF background = NoImage THEN "fetch" ELSE "load_image"
    /\ UNCHANGED <<data, brief, progress_callback, total_steps, product_index,
                   ratio_index, results, background, image, files, manifest,
                   returned, failed_at, product_image, composite, call>>

\* Variant: product_results is created once, outside the product loop.
BeginProductNoReset ==
    /\ pc = "next_product"
    /\ product_index <= Len(brief)
    /\ current_step' = current_step + 1
    /\ trace' = trace \o update_progress("")
    /\ pc' = "fetch"
    /\ UNCHANGED <<data, brief, progress_callback, total_steps, product_index,
                   ratio_index, results, product_results, background, image,
                   files, manifest, returned, failed_at, product_image, composite, call>>

\* generator.py 84-92: next product, product_results = [], update_progress
BeginProduct ==
    /\ pc = "next_product"
    /\ product_index <= Len(brief)
    /\ product_results' = <<>>
    /\ current_step' = current_step + 1
    /\ trace' = trace \o update_progress("")
    /\ pc' = "fetch"
    /\ UNCHANGED <<data, brief, progress_callback, total_steps, product_index,
                   ratio_index, results, background, image, files, manifest,
                   returned, failed_at, product_image, composite, call>>

\* Variant: a failing product is logged and skipped (per-product isolation).
AbortContinue(step) ==
    /\ failed_at' = step
    /\ trace' = Append(trace, Step("fail"))
    /\ pc' = IF step = "manifest" THEN "failed" ELSE "next_product"
    /\ product_index' = IF step = "manifest" THEN product_index
                        ELSE product_index + 1
    /\ UNCHANGED <<data, brief, progress_callback, total_steps, current_step,
                   ratio_index, results, product_results, background, image,
                   files, manifest, returned, product_image, composite, call>>

\* Variant: the files written so far are removed when the run fails.
AbortRollback(step) ==
    /\ pc' = "failed"
    /\ failed_at' = step
    /\ trace' = Append(trace, Step("fail"))
    /\ files' = <<>>
    /\ UNCHANGED <<data, brief, progress_callback, total_steps, current_step,
                   product_index, ratio_index, results, product_results,
                   background, image, manifest, returned, product_image,
                   composite, call>>

\* An exception leaves generate_campaign_creatives: nothing catches it.
Abort(step) ==
    /\ pc' = "failed"
    /\ failed_at' = step
    /\ trace' = Append(trace, Step("fail"))
    /\ UNCHANGED <<data, brief, progress_callback, total_steps, current_step,
                   product_index, ratio_index, results, product_results,
                   background, image, files, manifest, returned, product_image, composite, call>>

\* generator.py 93
FetchBackground ==
    /\ pc = "fetch"
    /\ background' = BackgroundSize
    /\ trace' = Append(trace, Step("fetch"))
    /\ pc' = "load_image"
    /\ UNCHANGED <<data, brief, progress_callback, total_steps, current_step,
                   product_index, ratio_index, results, product_results,
                   image, files, manifest, returned, failed_at, product_image, composite, call>>

\* Variant: a failed fetch is replaced by a placeholder background.
FetchBackgroundFallsBack ==
    /\ pc = "fetch"
    /\ failed_at' = "fetch"
    /\ background' = BackgroundSize
    /\ trace' = Append(trace, Step("fail"))
    /\ pc' = "load_image"
    /\ UNCHANGED <<data, brief, progress_callback, total_steps, current_step,
                   product_index, ratio_index, results, product_results,
                   image, files, manifest, returned, product_image, composite, call>>

\* generate_background raises (no key, network, quota, bad download)
FetchBackgroundFails == pc = "fetch" /\ Abort("fetch")

\* generator.py 96, then the ratio loop starts
LoadProductImage ==
    /\ pc = "load_image"
    /\ product_image' \in ProductImageSizes
    /\ trace' = Append(trace, Step("load"))
    /\ ratio_index' = 1
    /\ pc' = "next_ratio"
    /\ UNCHANGED <<data, brief, progress_callback, total_steps, current_step,
                   product_index, results, product_results, background,
                   image, files, manifest, returned, failed_at, composite,
                   call>>

LoadProductImageFails == pc = "load_image" /\ Abort("load")

\* generator.py 99-100
BeginRatio ==
    /\ pc = "next_ratio"
    /\ ratio_index <= Len(RatioNames)
    /\ current_step' = current_step + 1
    /\ trace' = trace \o update_progress(RatioNames[ratio_index])
    /\ pc' = "crop"
    /\ UNCHANGED <<data, brief, progress_callback, total_steps, product_index,
                   ratio_index, results, product_results, background, image,
                   files, manifest, returned, failed_at, product_image, composite, call>>

\* generator.py 103-105
Crop ==
    /\ pc = "crop"
    /\ LET cfg == ASPECT_RATIOS[RatioNames[ratio_index]]
           out == resize_and_crop(background.width, background.height,
                                  cfg.width, cfg.height, "center")
       IN image' = [width |-> out.width, height |-> out.height]
    /\ trace' = Append(trace, Step("crop"))
    /\ pc' = "composite"
    /\ UNCHANGED <<data, brief, progress_callback, total_steps, current_step,
                   product_index, ratio_index, results, product_results,
                   background, files, manifest, returned, failed_at, product_image, composite, call>>

\* generator.py 107-120: the product is pasted on the cropped background;
\* the composite has the size of the cropped background.
Composite ==
    /\ pc = "composite"
    /\ LET settings == ProductSettings(RatioNames[ratio_index])
       IN composite' =
              <<[position |-> settings.position, container |-> image,
                 placed |-> composite_product_on_background(
                                image.width, image.height,
                                product_image.width, product_image.height,
                                settings.position, Percent(settings.scale),
                                Percent(settings.max_height))]>>
    /\ trace' = Append(trace, Step("composite"))
    /\ pc' = "overlay"
    /\ UNCHANGED <<data, brief, progress_callback, total_steps, current_step,
                   product_index, ratio_index, results, product_results,
                   background, image, files, manifest, returned, failed_at,
                   product_image, call>>

\* generator.py 123-128: the overlay keeps the size
Overlay ==
    /\ pc = "overlay"
    /\ trace' = Append(trace, Step("overlay"))
    /\ pc' = "persist"
    /\ UNCHANGED <<data, brief, progress_callback, total_steps, current_step,
                   product_index, ratio_index, results, product_results,
                   background, image, files, manifest, returned, failed_at,
                   product_image, composite, call>>

RenderFails == pc \in {"crop", "composite", "overlay"} /\ Abort(pc)

\* generator.py 131-133
Persist ==
    /\ pc = "persist"
    /\ LET output_path == OutputPath(brief[product_index].id,
                                     RatioNames[ratio_index])
       IN /\ files' = [f \in DOMAIN files \cup {output_path} |->
                          IF f = output_path THEN image ELSE files[f]]
          /\ product_results' = Append(product_results, output_path)
    /\ trace' = Append(trace, Step("persist"))
    /\ ratio_index' = ratio_index + 1
    /\ pc' = "next_ratio"
    /\ UNCHANGED <<data, brief, progress_callback, total_steps, current_step,
                   product_index, results, background, image, manifest,
                   returned, failed_at, product_image, composite, call>>

PersistFails == pc = "persist" /\ Abort("persist")

\* generator.py 135: results[product.id] = product_results
EndProduct ==
    /\ pc = "next_ratio"
    /\ ratio_index > Len(RatioNames)
    /\ LET id == brief[product_index].id
       IN results' = [k \in DOMAIN results \cup {id} |->
                         IF k = id THEN product_results ELSE results[k]]
    /\ product_index' = product_index + 1
    /\ pc' = "next_product"
    /\ UNCHANGED <<data, brief, progress_callback, total_steps, current_step,
                   ratio_index, product_results, background, image, files,
                   manifest, returned, failed_at, trace, product_image, composite, call>>

\* Variant: no log is written when nothing was generated.
WriteManifestUnlessEmpty ==
    /\ pc = "next_product"
    /\ product_index > Len(brief)
    /\ manifest' = IF results = <<>> THEN <<>>
                   ELSE <<[products |-> [i \in 1..Len(brief) |-> brief[i].id],
                           aspect_ratios |-> RatioNames,
                           files |-> results]>>
    /\ trace' = Append(trace, Step("manifest"))
    /\ pc' = "return"
    /\ UNCHANGED <<data, brief, progress_callback, total_steps, current_step,
                   product_index, ratio_index, results, product_results,
                   background, image, files, returned, failed_at,
                   product_image, composite, call>>

\* generator.py 138-149
WriteManifest ==
    /\ pc = "next_product"
    /\ product_index > Len(brief)
    /\ manifest' = <<[products |-> [i \in 1..Len(brief) |-> brief[i].id],
                      aspect_ratios |-> RatioNames,
                      files |-> results]>>
    /\ trace' = Append(trace, Step("manifest"))
    /\ pc' = "return"
    /\ UNCHANGED <<data, brief, progress_callback, total_steps, current_step,
                   product_index, ratio_index, results, product_results,
                   background, image, files, returned, failed_at, product_image, composite, call>>

WriteManifestFails ==
    pc = "next_product" /\ product_index > Len(brief) /\ Abort("manifest")

\* generator.py 151
Return ==
    /\ pc = "return"
    /\ returned' = <<results>>
    /\ trace' = Append(trace, Step("done"))
    /\ pc' = "done"
    /\ UNCHANGED <<data, brief, progress_callback, total_steps, current_step,
                   product_index, ratio_index, results, product_results,
                   background, image, files, manifest, failed_at, product_image, composite, call>>

Next ==
    \/ load_campaign_brief
    \/ load_campaign_brief_error
    \/ StartRun
    \/ BeginProduct
    \/ FetchBackground
    \/ FetchBackgroundFails
    \/ LoadProductImage
    \/ LoadProductImageFails
    \/ BeginRatio
    \/ Crop
    \/ Composite
    \/ Overlay
    \/ RenderFails
    \/ Persist
    \/ PersistFails
    \/ EndProduct
    \/ WriteManifest
    \/ WriteManifestFails
    \/ Return

Spec == Init /\ [][Next]_vars

\* The interpreter runs the function on: outside the product loop, a step
\* that can be taken is taken (the brief is loaded, the run starts, the
\* manifest is written or its write fails, the function returns).
FairSpec ==
    /\ Spec
    /\ WF_vars(load_campaign_brief)
    /\ WF_vars(StartRun)
    /\ WF_vars(WriteManifest \/ WriteManifestFails)
    /\ WF_vars(Return)

(***************************************************************************)
(* Properties of a run                                                     *)
(***************************************************************************)
ProgressIdx == {i \in 1..Len(trace) : trace[i].kind = "progress"}

\* Background fetches and renders completed before history entry i.
Completed(i) ==
    Cardinality({j \in 1..(i - 1) : trace[j].kind \in {"fetch", "persist"}})

FixedRatioOrder == <<"1x1", "9x16", "16x9">>

\* C1: a successful run over P >= 1 products reports P * (1 + 3) progress
\* events; the fractions strictly increase, lie in (0, 1], and the last
\* one is exactly 1.0.
C1_ProgressSequence ==
    (pc = "done" /\ progress_callback /\ Len(brief) >= 1) =>
        /\ Cardinality(ProgressIdx) = Len(brief) * (1 + 3)
        /\ \A i, j \in ProgressIdx :
              i < j => FGreater(trace[j].fraction, trace[i].fraction)
        /\ \A i \in ProgressIdx :
              /\ FGreater(trace[i].fraction, FZero)
              /\ ~FGreater(trace[i].fraction, FOne)
        /\ \A i \in ProgressIdx :
              (\A j \in ProgressIdx : j <= i) => trace[i].fraction = FOne

C1_Witness ==
    /\ pc = "done"
    /\ progress_callback
    /\ Len(brief) = 2
    /\ Cardinality(ProgressIdx) = 8

\* C2 as claimed: every reported fraction is completed / total, completed
\* being the fetches and renders finished when the event is emitted.
C2_FractionIsCompleted ==
    \A i \in ProgressIdx :
        trace[i].fraction = FDiv(Completed(i), total_steps)

\* C2 amended: every progress event announces the step that is starting, so
\* the fraction is (completed + 1) / total; 1.0 is reported when the last
\* render starts.
C2_FractionIsStarted ==
    \A i \in ProgressIdx :
        trace[i].fraction = FDiv(Completed(i) + 1, total_steps)

C2_Witness ==
    /\ pc = "crop"
    /\ \E i \in ProgressIdx :
          /\ trace[i].fraction = FOne
          /\ Completed(i) + 1 = total_steps
          /\ Completed(i) = 7

\* C3: the manifest is written only on full success: never in a run in which
\* a fetch, image load, render or persist failed, and only after every
\* product's file of every aspect ratio was persisted.
C3_ManifestOnlyOnSuccess ==
    /\ manifest # <<>> =>
          /\ \A i \in 1..Len(trace) : trace[i].kind # "fail"
          /\ \A p \in 1..Len(brief) : \A r \in 1..3 :
                /\ \E i \in 1..Len(trace) :
                      trace[i] = Event("persist", p, FixedRatioOrder[r], FZero)
                /\ [dir |-> brief[p].id, file |-> FixedRatioOrder[r]]
                       \in DOMAIN files
    /\ failed_at \in {"fetch", "load", "crop", "composite", "overlay",
                      "persist"} => manifest = <<>>

C3_Witness ==
    /\ pc = "failed"
    /\ failed_at = "persist"
    /\ Len(brief) = 2
    /\ product_index = 2
    /\ ratio_index = 3
    /\ Cardinality(DOMAIN files) >= 3
    /\ manifest = <<>>

\* C4: when the background fetch or the product-image load of a product
\* fails the run ends there: nothing is rendered or reported for that
\* product's aspect ratios or for a later product, and nothing is returned.
C4_FetchFailureAborts ==
    failed_at \in {"fetch", "load"} =>
        /\ pc = "failed"
        /\ returned = <<>>
        /\ trace[Len(trace)].kind = "fail"
        /\ \A i \in 1..Len(trace) :
              /\ trace[i].product <= product_index
              /\ trace[i].product = product_index =>
                    /\ trace[i].kind \in {"progress", "fetch", "fail"}
                    /\ trace[i].ratio = ""

C4_Witness ==
    /\ pc = "failed"
    /\ failed_at = "fetch"
    /\ Len(brief) = 2
    /\ product_index = 1

\* The steps of the run, without the progress events and the image load.
RunSteps ==
    SelectSeq(trace, LAMBDA e : e.kind \in {"fetch", "crop", "composite",
                                            "overlay", "persist", "manifest",
                                            "done"})

\* The k-th step of the linear order for P products.
ExpectedStep(k, P) ==
    IF k > 13 * P
    THEN Event(IF k = 13 * P + 1 THEN "manifest" ELSE "done", 0, "", FZero)
    ELSE LET p == ((k - 1) \div 13) + 1
             pos == (k - 1) % 13
         IN IF pos = 0 THEN Event("fetch", p, "", FZero)
            ELSE Event(<<"crop", "composite", "overlay", "persist">>
                           [((pos - 1) % 4) + 1],
                       p, FixedRatioOrder[((pos - 1) \div 4) + 1], FZero)

\* C5: the steps of every run are an initial part of the linear order
\* fetch, then crop, composite, overlay, persist for 1x1, 9x16, 16x9, for
\* each product in brief order, then the manifest write, then done: one
\* fetch per product, before that product's crops, and no step twice.
C5_LinearOrder ==
    /\ Len(RunSteps) <= 13 * Len(brief) + 2
    /\ \A k \in 1..Len(RunSteps) : RunSteps[k] = ExpectedStep(k, Len(brief))
    /\ pc = "done" => Len(RunSteps) = 13 * Len(brief) + 2

C5_Witness ==
    /\ pc = "done"
    /\ Len(brief) = 2
    /\ Len(RunSteps) = 28

UniqueIds(b) == \A i, j \in 1..Len(b) : b[i].id = b[j].id => i = j

\* The three output paths of a product id, in the fixed order.
ExpectedPaths(id) ==
    [r \in 1..3 |-> [dir |-> id, file |-> FixedRatioOrder[r]]]

\* C6: a successful run over unique product ids returns, for every product
\* id, exactly the three paths 1x1, 9x16, 16x9 of that product's directory,
\* and the manifest lists the same paths.
C6_ResultPaths ==
    (pc = "done" /\ UniqueIds(brief)) =>
        /\ Len(returned) = 1
        /\ DOMAIN returned[1] = {brief[i].id : i \in 1..Len(brief)}
        /\ \A id \in DOMAIN returned[1] : returned[1][id] = ExpectedPaths(id)
        /\ manifest[1].files = returned[1]

C6_Witness ==
    /\ pc = "done"
    /\ Len(brief) = 2
    /\ brief[1].id # brief[2].id
    /\ Cardinality(DOMAIN files) = 6

\* C7: a brief with two products of the same id is rejected when it is
\* loaded, before anything runs.
C7_DuplicateIdRejected ==
    ~UniqueIds(data) =>
        /\ pc \in {"start", "config_error"}
        /\ trace = <<>>
        /\ DOMAIN files = {}

\* C12 as claimed: every product composite of the run uses the anchor
\* "center", and that anchor centres the product horizontally with its bottom
\* edge 8% of the container height above the container's bottom.
C12_CenterIsEightPercentAboveBottom ==
    composite # <<>> =>
        LET c == composite[1]
        IN /\ c.position = "center"
           /\ c.placed.x = (c.container.width - c.placed.target_width) \div 2
           /\ c.placed.y = c.container.height - c.placed.target_height
                               - Trunc(FMulInt(c.container.height, Percent(8)))

\* C12 amended: every product composite of the run uses the anchor "center",
\* and that anchor centres the product on both axes:
\* x = (W - scaledW) // 2 and y = (H - scaledH) // 2.
C12_CenterIsCentredOnBothAxes ==
    composite # <<>> =>
        LET c == composite[1]
        IN /\ c.position = "center"
           /\ c.placed.x = (c.container.width - c.placed.target_width) \div 2
           /\ c.placed.y = (c.container.height - c.placed.target_height) \div 2

C12_Witness ==
    /\ pc = "overlay"
    /\ composite # <<>>
    /\ composite[1].container = [width |-> 1080, height |-> 1920]
    /\ product_image = [width |-> 600, height |-> 1600]
    /\ composite[1].placed =
           [target_width |-> 288, target_height |-> 768, x |-> 396, y |-> 576]

\* The paths of the files the run has saved so far.
PersistedPaths ==
    {OutputPath(brief[trace[i].product].id, trace[i].ratio) :
        i \in {k \in 1..Len(trace) : trace[k].kind = "persist"}}

\* C21: the step at which a run aborts leaves every file saved so far on
\* disk, unchanged, and writes no manifest: nothing is rolled back or
\* cleaned up, so image files can remain without a manifest.
C21_AbortKeepsFiles ==
    [][pc' = "failed" =>
          /\ files' = files
          /\ PersistedPaths \subseteq DOMAIN files'
          /\ manifest' = <<>>]_vars

\* Product 2 failed at its second ratio: the three files of product 1 and
\* the first file of product 2 are on disk, and there is no manifest.
C21_Witness ==
    /\ pc = "failed"
    /\ Len(brief) = 2
    /\ UniqueIds(brief)
    /\ product_index = 2
    /\ ratio_index = 2
    /\ Cardinality(DOMAIN files) = 4
    /\ \A r \in 1..3 : ExpectedPaths(brief[1].id)[r] \in DOMAIN files
    /\ manifest = <<>>

\* A run over a brief with no products.
EmptyRun == brief = <<>> /\ pc \in {"loaded", "next_product", "return",
                                     "done", "failed"}

EmptyRunSafe ==
    /\ total_steps = 0
    /\ current_step = 0
    /\ \A i \in 1..Len(trace) : trace[i].kind \in {"manifest", "done", "fail"}
    /\ background = NoImage
    /\ DOMAIN files = {}
    /\ failed_at \in {"", "manifest"}
    /\ pc \in {"return", "done"} =>
           manifest = <<[products |-> <<>>, aspect_ratios |-> RatioNames,
                         files |-> <<>>]>>
    /\ pc = "done" => returned = <<<<>>>>

\* C22: a run over an empty product list ends; it computes no progress
\* fraction (so nothing divides by the zero total), emits no progress event,
\* fetches no background, writes a manifest with empty products and files and
\* returns an empty map.  Only the write of the manifest file itself can fail.
C22_EmptyBriefCompletes ==
    /\ [](EmptyRun => EmptyRunSafe)
    /\ (EmptyRun /\ pc = "loaded") ~> (EmptyRun /\ pc \in {"done", "failed"})

C22_Witness ==
    /\ pc = "done"
    /\ data = <<>>
    /\ progress_callback
    /\ trace = <<Event("manifest", 0, "", FZero), Event("done", 0, "", FZero)>>
    /\ manifest = <<[products |-> <<>>, aspect_ratios |-> RatioNames,
                     files |-> <<>>]>>
    /\ returned = <<<<>>>>

(***************************************************************************)
(* Calls of the geometry helpers on their own                              *)
(***************************************************************************)
PipelineIdle ==
    /\ pc = "idle"
    /\ data = <<>>
    /\ brief = <<>>
    /\ progress_callback = FALSE
    /\ total_steps = 0
    /\ current_step = 0
    /\ product_index = 0
    /\ ratio_index = 0
    /\ results = <<>>
    /\ product_results = <<>>
    /\ background = NoImage
    /\ product_image = NoImage
    /\ image = NoImage
    /\ composite = <<>>
    /\ files = <<>>
    /\ manifest = <<>>
    /\ returned = <<>>
    /\ failed_at = ""
    /\ trace = <<>>

Grid(n) == {[width |-> w, height |-> h] : w \in 1..n, h \in 1..n}

RatioSizes == {ASPECT_RATIOS[n] : n \in DOMAIN ASPECT_RATIOS}

\* --- resize_and_crop ---
MaxSourceDim == 4
MaxTargetDim == 3

\* Small images, the sizes DALL-E 3 produces, and two further sizes.
SourceSizes ==
    Grid(MaxSourceDim) \cup
    {[width |-> 1792, height |-> 1024], [width |-> 1024, height |-> 1792],
     [width |-> 1024, height |-> 1024], [width |-> 535, height |-> 535],
     [width |-> 99, height |-> 176]}

TargetSizes == Grid(MaxTargetDim) \cup RatioSizes

CropInit ==
    /\ PipelineIdle
    /\ \E src \in SourceSizes, tgt \in TargetSizes,
          focus \in {"center", "top", "bottom"} :
          call = [fn |-> "resize_and_crop",
                  args |-> [image |-> src, target_width |-> tgt.width,
                            target_height |-> tgt.height, focus |-> focus],
                  ret |-> <<>>]

CallResizeAndCrop ==
    /\ call.fn = "resize_and_crop"
    /\ call.ret = <<>>
    /\ call' = [call EXCEPT !.ret =
                   <<resize_and_crop(call.args.image.width,
                                     call.args.image.height,
                                     call.args.target_width,
                                     call.args.target_height,
                                     call.args.focus)>>]
    /\ UNCHANGED pipeline_vars

CropNext == CallResizeAndCrop

CropSpec == CropInit /\ [][CropNext]_vars

Cropped == call.fn = "resize_and_crop" /\ call.ret # <<>>

\* C8: resize_and_crop returns an image of exactly the target size: the
\* resized image covers the target in both directions.
C8_ExactTargetSize ==
    Cropped =>
        /\ call.ret[1].width = call.args.target_width
        /\ call.ret[1].height = call.args.target_height
        /\ call.ret[1].new_width >= call.args.target_width
        /\ call.ret[1].new_height >= call.args.target_height

\* C19: the horizontal crop offset is floor((scaledW - targetW) / 2) for every
\* focus; the vertical offset is 0 for "top", scaledH - targetH for "bottom"
\* and floor((scaledH - targetH) / 2) for "center"; the crop box lies inside
\* the scaled image.
C19_CropOffsets ==
    Cropped =>
        LET a == call.args
            r == call.ret[1]
        IN /\ r.left = (r.new_width - a.target_width) \div 2
           /\ r.top = IF a.focus = "top" THEN 0
                      ELSE IF a.focus = "bottom"
                      THEN r.new_height - a.target_height
                      ELSE (r.new_height - a.target_height) \div 2
           /\ 0 <= r.left /\ r.left <= r.right /\ r.right <= r.new_width
           /\ 0 <= r.top /\ r.top <= r.bottom /\ r.bottom <= r.new_height

\* C20: when srcW x targetH = srcH x targetW the image is scaled to exactly
\* (targetW, targetH) and the crop box is the whole scaled image, for every
\* focus.
C20_EqualRatioKeepsEverything ==
    (Cropped /\ call.args.image.width * call.args.target_height
                   = call.args.image.height * call.args.target_width) =>
        LET a == call.args
            r == call.ret[1]
        IN /\ r.new_width = a.target_width
           /\ r.new_height = a.target_height
           /\ r.left = 0 /\ r.top = 0
           /\ r.right = a.target_width
           /\ r.bottom = a.target_height

\* --- composite_product_on_background ---
MaxContainerDim == 3
MaxOverlayDim == 3

ContainerSizes == Grid(MaxContainerDim) \cup RatioSizes

OverlaySizes ==
    Grid(MaxOverlayDim) \cup
    {[width |-> 600, height |-> 1600], [width |-> 1600, height |-> 600]}

Positions == {"center", "center-bottom", "left", "right", "top"}

ScalePercents == {50, 55, 75, 100}

MaxHeightPercents == {40, 50, 65, 100}

PlaceInit ==
    /\ PipelineIdle
    /\ \E bg \in ContainerSizes, product \in OverlaySizes,
          position \in Positions, scale \in ScalePercents,
          max_height \in MaxHeightPercents :
          call = [fn |-> "composite_product_on_background",
                  args |-> [background |-> bg, product |-> product,
                            position |-> position, product_scale |-> scale,
                            max_height_percent |-> max_height],
                  ret |-> <<>>]

CallComposite ==
    /\ call.fn = "composite_product_on_background"
    /\ call.ret = <<>>
    /\ call' = [call EXCEPT !.ret =
                   <<composite_product_on_background(
                         call.args.background.width,
                         call.args.background.height,
                         call.args.product.width,
                         call.args.product.height,
                         call.args.position,
                         Percent(call.args.product_scale),
                         Percent(call.args.max_height_percent))>>]
    /\ UNCHANGED pipeline_vars

PlaceNext == CallComposite

PlaceSpec == PlaceInit /\ [][PlaceNext]_vars

Placed == call.fn = "composite_product_on_background" /\ call.ret # <<>>

Inside(x, y, w, h, bw, bh) ==
    0 <= x /\ 0 <= y /\ x + w <= bw /\ y + h <= bh

PlacedInside ==
    Inside(call.ret[1].x, call.ret[1].y,
           call.ret[1].target_width, call.ret[1].target_height,
           call.args.background.width, call.args.background.height)

BottomGap(bh) == (8 * bh) \div 100
SideGap(bw) == (10 * bw) \div 100

C18_HeightBoundTakesPrecedence ==
    Placed =>
        LET a == call.args
            r == call.ret[1]
            width0 == Trunc(FMulInt(a.background.width,
                                    Percent(a.product_scale)))
            height0 == Trunc(FMulInt(a.product.height,
                                     FDiv(width0, a.product.width)))
            cap == Trunc(FMulInt(a.background.height,
                                 Percent(a.max_height_percent)))
        IN /\ r.target_height <= cap
           /\ r.target_width <= width0
           /\ IF height0 > cap
              THEN /\ r.target_height = cap
                   /\ r.target_width
                          = Trunc(FMulInt(a.product.width,
                                          FDiv(cap, a.product.height)))
              ELSE r.target_width = width0 /\ r.target_height = height0

\* A tall product on the 9x16 format: 810x2160 is cut back to 288x768.
C18_Witness ==
    /\ Placed
    /\ call.args.background = [width |-> 1080, height |-> 1920]
    /\ call.args.product = [width |-> 600, height |-> 1600]
    /\ call.args.product_scale = 75
    /\ call.args.max_height_percent = 40
    /\ call.ret[1].target_width = 288
    /\ call.ret[1].target_height = 768

\* --- the logo step of apply_brand_overlay ---
MaxLogoDim == 2

ImageSizes == RatioSizes \cup {[width |-> 1080, height |-> 1350]}

LogoImageSizes ==
    Grid(MaxLogoDim) \cup
    {[width |-> 400, height |-> 200], [width |-> 2000, height |-> 500]}

LogoPercents == {5, 15, 20, 100}

LogoPositions == {"bottom-right", "bottom-left", "top-right", "top-left"}

LogoInit ==
    /\ PipelineIdle
    /\ \E ratio \in {"1x1", "9x16", "16x9", "4x5"}, img \in ImageSizes,
          exists \in BOOLEAN, logo \in LogoImageSizes,
          percent \in LogoPercents, position \in LogoPositions :
          call = [fn |-> "apply_brand_overlay",
                  args |-> [aspect_ratio |-> ratio, image |-> img,
                            logo_exists |-> exists, logo |-> logo,
                            layout_rules |->
                                [logo_position |-> position,
                                 logo_max_width_percent |-> percent,
                                 safe_margin_percent |-> 5]],
                  ret |-> <<>>]

CallLogoStep ==
    /\ call.fn = "apply_brand_overlay"
    /\ call.ret = <<>>
    /\ call' = [call EXCEPT !.ret =
                   <<[logo |-> LogoStep(call.args.aspect_ratio,
                                        call.args.image.width,
                                        call.args.image.height,
                                        call.args.logo_exists,
                                        call.args.logo.width,
                                        call.args.logo.height,
                                        call.args.layout_rules)]>>]
    /\ UNCHANGED pipeline_vars

LogoNext == CallLogoStep

LogoSpec == LogoInit /\ [][LogoNext]_vars

LogoPasted ==
    /\ call.fn = "apply_brand_overlay"
    /\ call.ret # <<>>
    /\ call.ret[1].logo # <<>>

\* C10 as claimed: the pasted logo is never wider than the configured
\* logoMaxWidthPercent of the image width (one pixel of rounding allowed).
C10_LogoWithinConfiguredPercent ==
    LogoPasted =>
        call.ret[1].logo[1].width
            <= (call.args.layout_rules.logo_max_width_percent
                    * call.args.image.width) \div 100 + 1

\* C10 amended: for 1x1, 9x16 and 16x9 the pasted logo is never wider than
\* 20%, 20% and 15% of the image width, whatever logoMaxWidthPercent is
\* configured; the configured percent bounds it for any other ratio name.
C10_LogoWithinRatioPercent ==
    LogoPasted =>
        LET cap == IF call.args.aspect_ratio \in {"1x1", "9x16"} THEN 20
                   ELSE IF call.args.aspect_ratio = "16x9" THEN 15
                   ELSE call.args.layout_rules.logo_max_width_percent
        IN call.ret[1].logo[1].width <= (cap * call.args.image.width) \div 100

C10_Witness ==
    /\ LogoPasted
    /\ call.args.aspect_ratio = "16x9"
    /\ call.args.image.width = 1920
    /\ call.args.layout_rules.logo_max_width_percent = 5
    /\ call.args.logo.width = 2000
    /\ call.ret[1].logo[1].width = 288

(***************************************************************************)
(* Calls of add_text_with_background                                       *)
(***************************************************************************)
MaxPillWords == 4

\* Campaign messages of one to MaxPillWords words.
PillTexts == {Join([i \in 1..k |-> <<"W", "a">>]) : k \in 1..MaxPillWords}

PillImageSizes ==
    {[width |-> 20, height |-> 20], [width |-> 10, height |-> 40],
     [width |-> 40, height |-> 10], [width |-> 1080, height |-> 1080]}

PillPositions ==
    {"top-left", "top-center", "top-right", "center-left", "center",
     "center-right", "bottom-left", "bottom-center", "bottom-right"}

LineHeights == {2, 5, 10}

MarginPercents == {5, 10, 25}

PillInit ==
    /\ PipelineIdle
    /\ \E img \in PillImageSizes, text \in PillTexts, lh \in LineHeights,
          position \in PillPositions, margin \in MarginPercents :
          call = [fn |-> "add_text_with_background",
                  args |-> [image |-> img, text |-> text, line_height |-> lh,
                            position |-> position, margin_percent |-> margin,
                            max_width_percent |-> 70],
                  ret |-> <<>>]

CallAddText ==
    /\ call.fn = "add_text_with_background"
    /\ call.ret = <<>>
    /\ call' = [call EXCEPT !.ret =
                   <<add_text_with_background(
                         call.args.image.width, call.args.image.height,
                         call.args.text, call.args.line_height,
                         call.args.position, call.args.margin_percent,
                         call.args.max_width_percent)>>]
    /\ UNCHANGED pipeline_vars

PillNext == CallAddText

PillSpec == PillInit /\ [][PillNext]_vars

PillPlaced == call.fn = "add_text_with_background" /\ call.ret # <<>>

\* The pill and both margins fit in the image.
PillFits ==
    LET a == call.args.image
        r == call.ret[1]
    IN /\ r.width + 2 * r.margin_x <= a.width
       /\ r.height + 2 * r.margin_y <= a.height

\* C11: the pill's top-left corner is clamped on both axes: x >= marginX and
\* y >= marginY for every position, image, pill and margin, and when the pill
\* and both margins fit also x + pillW <= W - marginX and
\* y + pillH <= H - marginY.
C11_PillClampedOnBothAxes ==
    PillPlaced =>
        LET a == call.args.image
            r == call.ret[1]
        IN /\ r.x >= r.margin_x
           /\ r.y >= r.margin_y
           /\ PillFits => /\ r.x + r.width <= a.width - r.margin_x
                          /\ r.y + r.height <= a.height - r.margin_y

(***************************************************************************)
(* Calls of wrap_text                                                      *)
(***************************************************************************)
MaxTextLen == 5

MaxWrapWidth == 4

Texts == UNION {[1..n -> Chars] : n \in 0..MaxTextLen}

WrapInit ==
    /\ PipelineIdle
    /\ \E text \in Texts, max_width \in 0..MaxWrapWidth :
          call = [fn |-> "wrap_text",
                  args |-> [text |-> text, max_width |-> max_width],
                  ret |-> <<>>]

CallWrapText ==
    /\ call.fn = "wrap_text"
    /\ call.ret = <<>>
    /\ call' = [call EXCEPT !.ret =
                   <<wrap_text(call.args.text, call.args.max_width)>>]
    /\ UNCHANGED pipeline_vars

\* The returned lines are joined with single spaces and wrapped again.
CallWrapTextAgain ==
    /\ call.fn = "wrap_text"
    /\ Len(call.ret) = 1
    /\ call' = [call EXCEPT !.ret =
                   Append(call.ret,
                          wrap_text(Join(call.ret[1]), call.args.max_width))]
    /\ UNCHANGED pipeline_vars

WrapNext == CallWrapText \/ CallWrapTextAgain

WrapSpec == WrapInit /\ [][WrapNext]_vars

Wrapped == call.fn = "wrap_text" /\ call.ret # <<>>

\* C16: wrapping the joined lines again with the same font and maxWidth
\* returns exactly the same lines.
C16_WrapIdempotent ==
    (call.fn = "wrap_text" /\ Len(call.ret) = 2) => call.ret[2] = call.ret[1]

C16_Witness ==
    /\ call.fn = "wrap_text"
    /\ Len(call.ret) = 2
    /\ Len(call.ret[1]) = 3
    /\ call.ret[2] = call.ret[1]

RECURSIVE Flatten(_)
\* The words of the lines, read in order.
Flatten(lines) ==
    IF lines = <<>> THEN <<>> ELSE Split(Head(lines)) \o Flatten(Tail(lines))

\* C17: wrap_text is greedy and lossless: the words of the returned lines are
\* the input words in order; with at least one input word no line is empty; a
\* line of two or more words measures at most maxWidth, so a line wider than
\* maxWidth is a single word; and a line starts at a word only if that word
\* appended to the line before it would exceed maxWidth.
C17_GreedyLossless ==
    Wrapped =>
        LET lines == call.ret[1]
            words == Split(call.args.text)
            max_width == call.args.max_width
        IN /\ Flatten(lines) = words
           /\ words # <<>> => \A i \in 1..Len(lines) : lines[i] # <<>>
           /\ \A i \in 1..Len(lines) :
                 /\ Len(Split(lines[i])) >= 2 => TextWidth(lines[i]) <= max_width
                 /\ TextWidth(lines[i]) > max_width => Len(Split(lines[i])) <= 1
           /\ \A i \in 2..Len(lines) :
                 TextWidth(Join(<<lines[i - 1], Head(Split(lines[i]))>>))
                     > max_width

C17_Witness ==
    /\ Wrapped
    /\ call.args.max_width = 3
    /\ call.ret[1] = <<<<"a", " ", "a">>, <<"W">>>>

(***************************************************************************)
(* Calls of add_cta_button as apply_brand_overlay makes them               *)
(***************************************************************************)
MaxButtonDim == 2

CtaImageSizes ==
    ImageSizes \cup {[width |-> 90, height |-> 90], [width |-> 10, height |-> 10]}

ButtonSizes ==
    Grid(MaxButtonDim)
        \cup {[width |-> 600, height |-> 200], [width |-> 300, height |-> 100],
              [width |-> 200, height |-> 2000], [width |-> 40, height |-> 30]}

CtaInit ==
    /\ PipelineIdle
    /\ \E ratio \in {"1x1", "9x16", "16x9", "4x5"}, img \in CtaImageSizes,
          exists \in BOOLEAN, button \in ButtonSizes :
          call = [fn |-> "add_cta_button",
                  args |-> [aspect_ratio |-> ratio, image |-> img,
                            button_exists |-> exists, button |-> button],
                  ret |-> <<>>]

\* brand_overlay.py 396-404
CallAddCtaButton ==
    /\ call.fn = "add_cta_button"
    /\ call.ret = <<>>
    /\ call' = [call EXCEPT !.ret =
                   <<[button |-> add_cta_button(
                                     call.args.image.width,
                                     call.args.image.height,
                                     call.args.button_exists,
                                     call.args.button.width,
                                     call.args.button.height,
                                     CtaButtonSize(call.args.aspect_ratio))]>>]
    /\ UNCHANGED pipeline_vars

CtaNext == CallAddCtaButton

CtaSpec == CtaInit /\ [][CtaNext]_vars

ButtonPasted ==
    /\ call.fn = "add_cta_button"
    /\ call.ret # <<>>
    /\ call.ret[1].button # <<>>

LogoStates == {"unset", "missing", "present"}

OverlayInit ==
    /\ PipelineIdle
    /\ \E ratio \in DOMAIN ASPECT_RATIOS, text \in PillTexts,
          button_exists \in BOOLEAN, logo \in LogoStates,
          text_position \in {"top-left", "bottom-left"},
          logo_position \in {"bottom-right", "top-right"} :
          call = [fn |-> "apply_brand_overlay_steps",
                  args |-> [aspect_ratio |-> ratio,
                            image |-> ASPECT_RATIOS[ratio],
                            campaign_message |-> text,
                            button_exists |-> button_exists,
                            button |-> [width |-> 600, height |-> 200],
                            logo_state |-> logo,
                            logo |-> [width |-> 400, height |-> 400],
                            layout_rules |->
                                [text_position |-> text_position,
                                 logo_position |-> logo_position,
                                 logo_max_width_percent |-> 15,
                                 safe_margin_percent |-> 5]],
                  at |-> "text", layers |-> <<>>, stdout |-> <<>>,
                  ret |-> <<>>]

Layer(kind, box) ==
    [kind |-> kind, x |-> box.x, y |-> box.y,
     width |-> box.width, height |-> box.height]

\* brand_overlay.py 380-394; the height of "Ag" is taken as the font size
OverlayText ==
    /\ call.fn = "apply_brand_overlay_steps"
    /\ call.at = "text"
    /\ LET img == call.args.image
           short == IF img.width < img.height THEN img.width ELSE img.height
           font_size == Trunc(FMulInt(short, FDiv(65, 1000)))
           pill == add_text_with_background(
                       img.width, img.height, call.args.campaign_message,
                       font_size, call.args.layout_rules.text_position,
                       call.args.layout_rules.safe_margin_percent, 70)
       IN call' = [call EXCEPT !.layers = Append(@, Layer("text", pill)),
                               !.at = "button"]
    /\ UNCHANGED pipeline_vars

\* Variant: a missing button file raises (Image.open without the exists test).
OverlayButtonRaises ==
    /\ call.fn = "apply_brand_overlay_steps"
    /\ call.at = "button"
    /\ LET img == call.args.image
           button == add_cta_button(img.width, img.height,
                                    call.args.button_exists,
                                    call.args.button.width,
                                    call.args.button.height,
                                    CtaButtonSize(call.args.aspect_ratio))
       IN call' = IF button = <<>>
                  THEN [call EXCEPT !.at = "error"]
                  ELSE [call EXCEPT
                           !.layers = Append(@, Layer("button", button[1])),
                           !.at = "logo"]
    /\ UNCHANGED pipeline_vars

\* brand_overlay.py 396-404, with the skip of add_cta_button 305-312
OverlayButton ==
    /\ call.fn = "apply_brand_overlay_steps"
    /\ call.at = "button"
    /\ LET img == call.args.image
           button == add_cta_button(img.width, img.height,
                                    call.args.button_exists,
                                    call.args.button.width,
                                    call.args.button.height,
                                    CtaButtonSize(call.args.aspect_ratio))
       IN call' = IF button = <<>>
                  THEN [call EXCEPT
                           !.stdout = Append(@, [level |-> "Warning",
                                                 about |-> "button"]),
                           !.at = "logo"]
                  ELSE [call EXCEPT
                           !.layers = Append(@, Layer("button", button[1])),
                           !.at = "logo"]
    /\ UNCHANGED pipeline_vars

\* brand_overlay.py 406-416
OverlayLogo ==
    /\ call.fn = "apply_brand_overlay_steps"
    /\ call.at = "logo"
    /\ LET img == call.args.image
           logo == LogoStep(call.args.aspect_ratio, img.width, img.height,
                            call.args.logo_state = "present",
                            call.args.logo.width, call.args.logo.height,
                            call.args.layout_rules)
       IN call' = IF logo = <<>>
                  THEN [call EXCEPT !.at = "return"]
                  ELSE [call EXCEPT
                           !.layers = Append(@, Layer("logo", logo[1])),
                           !.at = "return"]
    /\ UNCHANGED pipeline_vars

\* brand_overlay.py 418
OverlayReturn ==
    /\ call.fn = "apply_brand_overlay_steps"
    /\ call.at = "return"
    /\ call' = [call EXCEPT !.ret = <<call.layers>>, !.at = "done"]
    /\ UNCHANGED pipeline_vars

OverlayNext == OverlayText \/ OverlayButton \/ OverlayLogo \/ OverlayReturn

OverlaySpec == OverlayInit /\ [][OverlayNext]_vars

HasLayer(kind) == \E i \in 1..Len(call.layers) : call.layers[i].kind = kind

Warned(about) == \E i \in 1..Len(call.stdout) : call.stdout[i].about = about

\* What both readings of C14 share: no step ends in an error; a missing
\* button file leaves the image as the text step returned it; a missing logo
\* file pastes no logo; and the other steps are carried out all the same.
OverlaySkipsCleanly ==
    /\ call.at # "error"
    /\ (call.at \in {"logo", "return", "done"} /\ ~call.args.button_exists)
           => (~HasLayer("button") /\ (call.at = "logo" => Len(call.layers) = 1))
    /\ (call.at \in {"return", "done"} /\ call.args.logo_state # "present")
           => (~HasLayer("logo")
               /\ Len(call.layers)
                      = IF call.args.button_exists THEN 2 ELSE 1)
    /\ call.at = "done" =>
           /\ call.ret = <<call.layers>>
           /\ HasLayer("text")
           /\ HasLayer("button") <=> call.args.button_exists
           /\ HasLayer("logo") <=> call.args.logo_state = "present"

REGION_KEYS ==
    <<"us_pacific_northwest", "us_southwest", "us_northeast", "us_rockies",
      "us_midwest", "alps_europe", "scandinavia", "patagonia", "new_zealand",
      "japan_alps">>

\* REGION_PROMPTS: each key has a prompt text of its own.
REGION_PROMPTS ==
    [r \in {REGION_KEYS[i] : i \in 1..Len(REGION_KEYS)} |-> [scene |-> r]]

\* Variant: the fallback is the last declared region.
FallbackRegionLast == REGION_KEYS[Len(REGION_KEYS)]

\* list(REGION_PROMPTS.keys())[0]
FallbackRegion == REGION_KEYS[1]

UnknownRegions == {"", "mars_valley"}

DalleSizes ==
    {[width |-> 1792, height |-> 1024], [width |-> 1024, height |-> 1792],
     [width |-> 1024, height |-> 1024]}

\* env: whether OPENAI_API_KEY is set and whether the API and the download
\* succeed.
RegionInit ==
    /\ PipelineIdle
    /\ \E region \in DOMAIN REGION_PROMPTS \cup UnknownRegions,
          size \in DalleSizes, api_key \in BOOLEAN, api_ok \in BOOLEAN :
          call = [fn |-> "generate_background",
                  args |-> [region |-> region, size |-> size],
                  env |-> [api_key |-> api_key, api_ok |-> api_ok],
                  at |-> "prompt", prompt |-> <<>>, stdout |-> <<>>,
                  request |-> <<>>, error |-> "", ret |-> <<>>]

\* background_generator.py 108-118
SelectPrompt ==
    /\ call.fn = "generate_background"
    /\ call.at = "prompt"
    /\ LET region == call.args.region
           known == region \in DOMAIN REGION_PROMPTS
       IN call' = [call EXCEPT
                      !.prompt = IF known THEN <<REGION_PROMPTS[region]>>
                                 ELSE <<REGION_PROMPTS[FallbackRegion]>>,
                      !.stdout =
                          (IF known THEN <<>>
                           ELSE <<[level |-> "Warning", region |-> region,
                                   fallback |-> FallbackRegion]>>)
                              \o <<[level |-> "Info", region |-> region,
                                    fallback |-> "" ]>>,
                      !.at = "client"]
    /\ UNCHANGED pipeline_vars

\* background_generator.py 19-26, 120
GetClient ==
    /\ call.fn = "generate_background"
    /\ call.at = "client"
    /\ call' = IF call.env.api_key
               THEN [call EXCEPT !.at = "generate"]
               ELSE [call EXCEPT !.at = "raised", !.error = "ValueError"]
    /\ UNCHANGED pipeline_vars

\* background_generator.py 121-132
GenerateImage ==
    /\ call.fn = "generate_background"
    /\ call.at = "generate"
    /\ call' = [call EXCEPT
                   !.request = <<[model |-> "dall-e-3",
                                  prompt |-> call.prompt[1],
                                  size |-> call.args.size]>>,
                   !.at = IF call.env.api_ok THEN "return" ELSE "raised",
                   !.error = IF call.env.api_ok THEN "" ELSE "APIError"]
    /\ UNCHANGED pipeline_vars

\* background_generator.py 134-135
ReturnImage ==
    /\ call.fn = "generate_background"
    /\ call.at = "return"
    /\ call' = [call EXCEPT !.ret = <<call.args.size>>, !.at = "done"]
    /\ UNCHANGED pipeline_vars

RegionNext == SelectPrompt \/ GetClient \/ GenerateImage \/ ReturnImage

RegionSpec == RegionInit /\ [][RegionNext]_vars

\* C15: an unknown region key never makes generate_background raise: the
\* prompt of the first declared region, us_pacific_northwest, is used, and
\* the call goes on as for a known key: it sends that prompt, fails only for
\* a missing API key or a failed request, and otherwise returns the image.
C15_UnknownRegionFallsBack ==
    (call.fn = "generate_background"
        /\ call.args.region \notin DOMAIN REGION_PROMPTS) =>
        /\ call.at # "prompt" =>
               call.prompt = <<REGION_PROMPTS["us_pacific_northwest"]>>
        /\ call.error \in {"", "ValueError", "APIError"}
        /\ call.error = "ValueError" <=> (call.at = "raised" /\ ~call.env.api_key)
        /\ call.error = "APIError"
               <=> (call.at = "raised" /\ call.env.api_key /\ ~call.env.api_ok)
        /\ call.request # <<>> =>
               call.request[1] = [model |-> "dall-e-3",
                                  prompt |-> [scene |-> "us_pacific_northwest"],
                                  size |-> call.args.size]
        /\ call.at = "done" => call.ret = <<call.args.size>>

C15_Witness ==
    /\ call.fn = "generate_background"
    /\ call.args.region = "mars_valley"
    /\ call.at = "done"
    /\ call.request[1].prompt = REGION_PROMPTS["us_pacific_northwest"]
    /\ call.stdout[1] = [level |-> "Warning", region |-> "mars_valley",
                         fallback |-> "us_pacific_northwest"]

====
